---- MODULE Spec2Model ----
(***************************************************************************)
(* A model of backend/main.py: the JSON-file key-value store (storage_get, *)
(* storage_set) and the owner-name resolver (resolve_owner_names), under   *)
(* calls the host serializes (Spec) and calls that interleave (SpecConc).  *)
(*                                                                         *)
(* Python str values are sequences of one-character strings, so that       *)
(* strip(), split(","), json.dumps and json.loads are computed on the text *)
(* itself.  The persisted file is its text.                                *)
(***************************************************************************)
EXTENDS Integers, Sequences, FiniteSets, TLC

(***************************************************************************)
(* Python values.                                                          *)
(***************************************************************************)
PyNone == [t |-> "none"]
PyStr(s) == [t |-> "str", s |-> s]
PyInt(d) == [t |-> "int", d |-> d]
PyBool(b) == [t |-> "bool", b |-> b]
PyList(items) == [t |-> "list", items |-> items]
PyDict(items) == [t |-> "dict", items |-> items]
\* a value json.dumps cannot serialize (a set, an object)
PyObject == [t |-> "object"]

IsStr(v) == v.t = "str"
IsDict(v) == v.t = "dict"
IsList(v) == v.t = "list"

\* a lone UTF-16 surrogate: one character the utf-8 codec cannot encode
Surrogate == "\\ud800"
Quote == "\""
Backslash == "\\"
Newline == "\n"
Whitespace == {" ", "\n", "\t", "\r"}
Digits == {"0", "1", "2", "3", "4", "5", "6", "7", "8", "9"}

RECURSIVE Concat(_)
Concat(chunks) ==
    IF chunks = <<>> THEN <<>> ELSE Head(chunks) \o Concat(Tail(chunks))

(***************************************************************************)
(* dict operations on an insertion-ordered sequence of <<key, value>>.     *)
(***************************************************************************)
DictHas(items, k) == \E i \in 1..Len(items) : items[i][1] = k

DictGet(items, k, default) ==
    IF DictHas(items, k)
    THEN items[CHOOSE i \in 1..Len(items) : items[i][1] = k][2]
    ELSE default

\* d[k] = v: an existing key keeps its position, a new one is appended
DictSet(items, k, v) ==
    IF DictHas(items, k)
    THEN [i \in 1..Len(items) |-> IF items[i][1] = k THEN <<k, v>> ELSE items[i]]
    ELSE Append(items, <<k, v>>)

DictKeys(items) == {items[i][1] : i \in 1..Len(items)}

(***************************************************************************)
(* str.strip() and str.split(",").                                         *)
(***************************************************************************)
RECURSIVE LStrip(_)
LStrip(s) ==
    IF s # <<>> /\ Head(s) \in Whitespace THEN LStrip(Tail(s)) ELSE s

RECURSIVE RStrip(_)
RStrip(s) ==
    IF s # <<>> /\ s[Len(s)] \in Whitespace
    THEN RStrip(SubSeq(s, 1, Len(s) - 1))
    ELSE s

Strip(s) == RStrip(LStrip(s))

\* s.split(sep): the pieces between separators; "" gives [""]
RECURSIVE SplitFrom(_, _, _, _)
SplitFrom(s, sep, i, cur) ==
    IF i > Len(s) THEN <<cur>>
    ELSE IF s[i] = sep THEN <<cur>> \o SplitFrom(s, sep, i + 1, <<>>)
    ELSE SplitFrom(s, sep, i + 1, Append(cur, s[i]))

Split(s, sep) == SplitFrom(s, sep, 1, <<>>)

(***************************************************************************)
(* json.dumps / json.dump (ensure_ascii=False).  The encoder yields the    *)
(* text in chunks, as json.JSONEncoder.iterencode does; `pretty` is        *)
(* indent=2 (the file), otherwise the default separators ", " and ": ".    *)
(***************************************************************************)
EscapeChar(c) ==
    IF c = Quote THEN <<Backslash, Quote>>
    ELSE IF c = Backslash THEN <<Backslash, Backslash>>
    ELSE IF c = "\n" THEN <<Backslash, "n">>
    ELSE IF c = "\t" THEN <<Backslash, "t">>
    ELSE IF c = "\r" THEN <<Backslash, "r">>
    ELSE <<c>>

RECURSIVE EscapeFrom(_, _)
EscapeFrom(s, i) ==
    IF i > Len(s) THEN <<>> ELSE EscapeChar(s[i]) \o EscapeFrom(s, i + 1)

\* py_encode_basestring: the text in quotes, its special characters escaped
EncodeStr(s) ==
    IF \A i \in 1..Len(s) : s[i] \notin {Quote, Backslash, "\n", "\t", "\r"}
    THEN <<Quote>> \o s \o <<Quote>>
    ELSE <<Quote>> \o EscapeFrom(s, 1) \o <<Quote>>

RECURSIVE Serializable(_)
Serializable(v) ==
    CASE v.t = "object" -> FALSE
      [] v.t = "list" -> \A i \in 1..Len(v.items) : Serializable(v.items[i])
      [] v.t = "dict" -> \A i \in 1..Len(v.items) : Serializable(v.items[i][2])
      [] OTHER -> TRUE

RECURSIVE Spaces(_)
Spaces(n) == IF n <= 0 THEN <<>> ELSE <<" ">> \o Spaces(n - 1)

NewlineIndent(level) == <<Newline>> \o Spaces(2 * level)

IsComposite(v) == v.t \in {"list", "dict"}

ScalarText(v) ==
    CASE v.t = "str" -> EncodeStr(v.s)
      [] v.t = "int" -> v.d
      [] v.t = "bool" -> IF v.b THEN <<"t", "r", "u", "e">>
                         ELSE <<"f", "a", "l", "s", "e">>
      [] OTHER -> <<"n", "u", "l", "l">>

RECURSIVE IterEncode(_, _, _)
RECURSIVE EncodeDictItems(_, _, _, _)
RECURSIVE EncodeListItems(_, _, _, _)
IterEncode(v, pretty, level) ==
    CASE v.t = "dict" ->
           IF v.items = <<>> THEN << <<"{", "}">> >>
           ELSE << <<"{">> >>
                \o (IF pretty THEN <<NewlineIndent(level + 1)>> ELSE <<>>)
                \o EncodeDictItems(v.items, 1, pretty, level + 1)
                \o (IF pretty THEN <<NewlineIndent(level)>> ELSE <<>>)
                \o << <<"}">> >>
      [] v.t = "list" ->
           IF v.items = <<>> THEN << <<"[", "]">> >>
           ELSE EncodeListItems(v.items, 1, pretty, level + 1)
                \o (IF pretty THEN <<NewlineIndent(level)>> ELSE <<>>)
                \o << <<"]">> >>
      [] OTHER -> <<ScalarText(v)>>

EncodeDictItems(items, i, pretty, level) ==
    IF i > Len(items) THEN <<>>
    ELSE (IF i = 1 THEN <<>>
          ELSE IF pretty THEN << <<",">> \o NewlineIndent(level) >>
          ELSE << <<",", " ">> >>)
         \o <<EncodeStr(items[i][1]), <<":", " ">> >>
         \o IterEncode(items[i][2], pretty, level)
         \o EncodeDictItems(items, i + 1, pretty, level)

EncodeListItems(items, i, pretty, level) ==
    IF i > Len(items) THEN <<>>
    ELSE LET buf == IF i = 1
                    THEN <<"[">> \o (IF pretty THEN NewlineIndent(level) ELSE <<>>)
                    ELSE IF pretty THEN <<",">> \o NewlineIndent(level)
                    ELSE <<",", " ">>
         IN  (IF IsComposite(items[i])
              THEN <<buf>> \o IterEncode(items[i], pretty, level)
              ELSE <<buf \o ScalarText(items[i])>>)
             \o EncodeListItems(items, i + 1, pretty, level)

\* json.dumps(value, ensure_ascii=False)
JsonDumps(v) == Concat(IterEncode(v, FALSE, 0))

(***************************************************************************)
(* json.loads: a recursive-descent parser over the text.  Results are      *)
(* [ok, v, i]: whether the text parsed, the value, the next index.  The    *)
(* texts of this model hold no \u escapes, fractions or exponents.         *)
(***************************************************************************)
ParseFail == [ok |-> FALSE, v |-> PyNone, i |-> 0]
ParseOk(v, i) == [ok |-> TRUE, v |-> v, i |-> i]

At(s, i) == IF i >= 1 /\ i <= Len(s) THEN s[i] ELSE ""

RECURSIVE SkipWs(_, _)
SkipWs(s, i) == IF At(s, i) \in Whitespace THEN SkipWs(s, i + 1) ELSE i

Unescape(e) ==
    CASE e = "n" -> "\n"
      [] e = "t" -> "\t"
      [] e = "r" -> "\r"
      [] OTHER -> e

RECURSIVE ScanString(_, _, _)
ScanString(s, j, acc) ==
    LET c == At(s, j) IN
    IF c = "" \/ c \in {"\n", "\t", "\r"} THEN ParseFail
    ELSE IF c = Quote THEN ParseOk(acc, j + 1)
    ELSE IF c = Backslash
    THEN IF At(s, j + 1) \in {Quote, Backslash, "/", "n", "t", "r"}
         THEN ScanString(s, j + 2, Append(acc, Unescape(At(s, j + 1))))
         ELSE ParseFail
    ELSE ScanString(s, j + 1, Append(acc, c))

RECURSIVE ScanDigits(_, _)
ScanDigits(s, j) == IF At(s, j) \in Digits THEN ScanDigits(s, j + 1) ELSE j

ParseNumber(s, i) ==
    LET first == IF At(s, i) = "-" THEN i + 1 ELSE i
        last == ScanDigits(s, first)
    IN  IF last = first THEN ParseFail
        ELSE IF At(s, first) = "0" /\ last > first + 1 THEN ParseFail
        ELSE IF At(s, last) \in {".", "e", "E"} THEN ParseFail
        ELSE ParseOk(PyInt(SubSeq(s, i, last - 1)), last)

MatchAt(s, i, lit) ==
    /\ i + Len(lit) - 1 <= Len(s)
    /\ SubSeq(s, i, i + Len(lit) - 1) = lit

RECURSIVE ParseValue(_, _)
RECURSIVE ParseMembers(_, _, _)
RECURSIVE ParseElements(_, _, _)
ParseValue(s, i) ==
    LET c == At(s, i) IN
    CASE c = Quote ->
           LET r == ScanString(s, i + 1, <<>>)
           IN  IF r.ok THEN ParseOk(PyStr(r.v), r.i) ELSE ParseFail
      [] c = "{" ->
           LET j == SkipWs(s, i + 1)
           IN  IF At(s, j) = "}" THEN ParseOk(PyDict(<<>>), j + 1)
               ELSE ParseMembers(s, j, <<>>)
      [] c = "[" ->
           LET j == SkipWs(s, i + 1)
           IN  IF At(s, j) = "]" THEN ParseOk(PyList(<<>>), j + 1)
               ELSE ParseElements(s, j, <<>>)
      [] c = "-" \/ c \in Digits -> ParseNumber(s, i)
      [] c = "t" /\ MatchAt(s, i, <<"t", "r", "u", "e">>) ->
           ParseOk(PyBool(TRUE), i + 4)
      [] c = "f" /\ MatchAt(s, i, <<"f", "a", "l", "s", "e">>) ->
           ParseOk(PyBool(FALSE), i + 5)
      [] c = "n" /\ MatchAt(s, i, <<"n", "u", "l", "l">>) ->
           ParseOk(PyNone, i + 4)
      [] OTHER -> ParseFail

\* the members of an object from index j (a key is expected there)
ParseMembers(s, j, items) ==
    IF At(s, j) # Quote THEN ParseFail
    ELSE LET k == ScanString(s, j + 1, <<>>) IN
         IF ~k.ok THEN ParseFail
         ELSE LET c == SkipWs(s, k.i) IN
              IF At(s, c) # ":" THEN ParseFail
              ELSE LET val == ParseValue(s, SkipWs(s, c + 1)) IN
                   IF ~val.ok THEN ParseFail
                   ELSE LET m == SkipWs(s, val.i)
                            got == DictSet(items, k.v, val.v)
                        IN  IF At(s, m) = "}" THEN ParseOk(PyDict(got), m + 1)
                            ELSE IF At(s, m) = ","
                            THEN ParseMembers(s, SkipWs(s, m + 1), got)
                            ELSE ParseFail

ParseElements(s, j, items) ==
    LET val == ParseValue(s, j) IN
    IF ~val.ok THEN ParseFail
    ELSE LET m == SkipWs(s, val.i)
             got == Append(items, val.v)
         IN  IF At(s, m) = "]" THEN ParseOk(PyList(got), m + 1)
             ELSE IF At(s, m) = ","
             THEN ParseElements(s, SkipWs(s, m + 1), got)
             ELSE ParseFail

\* json.loads(text): [ok, v]; ok = FALSE is the JSONDecodeError
JsonLoads(s) ==
    LET r == ParseValue(s, SkipWs(s, 1)) IN
    IF r.ok /\ SkipWs(s, r.i) = Len(s) + 1 THEN r ELSE ParseFail

(***************************************************************************)
(* The program.                                                            *)
(***************************************************************************)
OWNER_NAME_CACHE_KEY ==
    <<"s", "f", "s", ".", "o", "w", "n", "e", "r", "N", "a", "m", "e", "s",
      ".", "v", "1">>

\* DATA_FILE on disk: absent, present but not openable, or its text
AbsentFile == [kind |-> "absent", text |-> <<>>]
UnreadableFile == [kind |-> "unreadable", text |-> <<>>]
TextFile(text) == [kind |-> "text", text |-> text]

EmptyDict == PyDict(<<>>)

\* _load_all: {} when the file is absent or open/json.load raises; otherwise
\* whatever json.load returns, a dict or not
LoadAll(f) ==
    IF f.kind # "text" THEN EmptyDict
    ELSE LET r == JsonLoads(f.text)
         IN  IF r.ok THEN r.v ELSE EmptyDict

\* the utf-8 codec refuses a lone surrogate (UnicodeEncodeError)
Encodable(chunk) == \A i \in 1..Len(chunk) : chunk[i] # Surrogate

\* the number of leading chunks f.write accepts
RECURSIVE WrittenChunks(_, _)
WrittenChunks(chunks, n) ==
    IF n < Len(chunks) /\ Encodable(chunks[n + 1])
    THEN WrittenChunks(chunks, n + 1)
    ELSE n

Min(a, b) == IF a < b THEN a ELSE b

\* the chunks json.dump(data, f, ensure_ascii=False, indent=2) writes
DumpChunks(data) == IterEncode(data, TRUE, 0)

\* a _write_all that keeps the keys the file holds and data lacks
WriteAllMerging(f, data, io) ==
    LET cur == LoadAll(f)
        kept == IF IsDict(cur)
                THEN SelectSeq(cur.items, LAMBDA e : ~DictHas(data.items, e[1]))
                ELSE <<>>
    IN  IF io.k = "ok"
        THEN [ok |-> TRUE,
              file |-> TextFile(Concat(DumpChunks(PyDict(kept \o data.items))))]
        ELSE [ok |-> FALSE, file |-> f]

\* _write_all(data) under the I/O outcome io: [ok, file].  "openfail":
\* makedirs or open raises and the file is untouched.  Otherwise
\* open(.., "w") truncates the file and json.dump writes chunk by chunk: a
\* chunk that cannot be encoded, or an I/O error ("ioerror", after io.cut
\* characters), leaves the prefix written so far.
WriteAll(f, data, io) ==
    LET chunks == DumpChunks(data)
        n == WrittenChunks(chunks, 0)
        text == Concat(chunks)
    IN  IF io.k = "openfail" THEN [ok |-> FALSE, file |-> f]
        ELSE IF n < Len(chunks)
        THEN [ok |-> FALSE, file |-> TextFile(Concat(SubSeq(chunks, 1, n)))]
        ELSE IF io.k = "ioerror"
        THEN [ok |-> FALSE,
              file |-> TextFile(SubSeq(text, 1, Min(io.cut, Len(text) - 1)))]
        ELSE [ok |-> TRUE, file |-> TextFile(text)]

\* payload.get(name, default) when the payload is a dict
FromPayload(payload, name, default) ==
    IF IsDict(payload) THEN DictGet(payload.items, name, default) ELSE default

\* a storage_set without the check of value against None
RejectedKeyOnly(key, value) ==
    \/ key = PyNone
    \/ (~IsStr(value) /\ ~Serializable(value))

\* lines 60-71 of storage_set: the call returns False before the store is read
Rejected(key, value) ==
    \/ key = PyNone
    \/ value = PyNone
    \/ (~IsStr(value) /\ ~Serializable(value))

\* what storage_set stores for a value that is not None: the value itself
\* when it is a str, else json.dumps(value)
StoredValue(value) == IF IsStr(value) THEN value ELSE PyStr(JsonDumps(value))

\* the loop body of _normalize_owner_name_cache over raw.items()
RECURSIVE NormalizeItems(_, _, _)
NormalizeItems(items, i, normalized) ==
    IF i > Len(items) THEN normalized
    ELSE LET sid == Strip(items[i][1])
             owner == items[i][2]
         IN  IF ~IsStr(owner) THEN NormalizeItems(items, i + 1, normalized)
             ELSE IF sid = <<>> \/ Strip(owner.s) = <<>>
             THEN NormalizeItems(items, i + 1, normalized)
             ELSE NormalizeItems(items, i + 1,
                                 DictSet(normalized, sid, PyStr(Strip(owner.s))))

\* a _normalize_owner_name_cache that takes the str entries as they are
NormalizeWithoutStrip(raw0) ==
    LET parsed == IF IsStr(raw0) THEN JsonLoads(raw0.s) ELSE ParseOk(raw0, 0)
        raw == IF parsed.ok THEN parsed.v ELSE EmptyDict
    IN  IF ~IsDict(raw) THEN <<>>
        ELSE SelectSeq(raw.items, LAMBDA e : IsStr(e[2]))

\* _normalize_owner_name_cache: the items of the normalized dict[str, str]
NormalizeOwnerNameCache(raw0) ==
    LET parsed == IF IsStr(raw0) THEN JsonLoads(raw0.s) ELSE ParseOk(raw0, 0)
        raw == IF parsed.ok THEN parsed.v ELSE EmptyDict
    IN  IF ~IsDict(raw) THEN <<>> ELSE NormalizeItems(raw.items, 1, <<>>)

\* the unique loop of _parse_steam_ids
RECURSIVE UniqueIds(_, _, _)
UniqueIds(parsed, i, unique) ==
    IF i > Len(parsed) THEN unique
    ELSE LET sid == Strip(parsed[i])
         IN  IF sid = <<>> \/ (\E j \in 1..Len(unique) : unique[j] = sid)
             THEN UniqueIds(parsed, i + 1, unique)
             ELSE UniqueIds(parsed, i + 1, Append(unique, sid))

RECURSIVE StrItems(_, _)
StrItems(items, i) ==
    IF i > Len(items) THEN <<>>
    ELSE (IF IsStr(items[i]) THEN <<items[i].s>> ELSE <<>>)
         \o StrItems(items, i + 1)

\* lines 98-102 of _parse_steam_ids: the list's str items, else the pieces
\* of the comma-separated text
ParsedIds(steam_ids, steam_ids_csv) ==
    IF IsList(steam_ids) THEN StrItems(steam_ids.items, 1)
    ELSE IF IsStr(steam_ids_csv) THEN Split(steam_ids_csv.s, ",")
    ELSE <<>>

\* a _parse_steam_ids without the `sid in seen` test
ParseSteamIdsKeepingDuplicates(steam_ids, steam_ids_csv) ==
    LET parsed == ParsedIds(steam_ids, steam_ids_csv)
    IN  SelectSeq([i \in 1..Len(parsed) |-> Strip(parsed[i])],
                  LAMBDA sid : sid # <<>>)

\* _parse_steam_ids
ParseSteamIds(steam_ids, steam_ids_csv) ==
    UniqueIds(ParsedIds(steam_ids, steam_ids_csv), 1, <<>>)

\* what urlopen + ET.fromstring give for one profile: an exception
\* (FetchError), or a document whose steamID text is resp.steamID (PyNone:
\* the document has no steamID element)
FetchError == [k |-> "error", steamID |-> PyNone]
Profile(text) == [k |-> "xml", steamID |-> PyStr(text)]
NoSteamID == [k |-> "xml", steamID |-> PyNone]

\* _fetch_owner_name_from_profile_xml: the name, or PyNone
FetchOwnerNameFromProfileXml(resp) ==
    IF resp.k # "xml" THEN PyNone
    ELSE LET name == Strip(IF IsStr(resp.steamID) THEN resp.steamID.s ELSE <<>>)
         IN  IF name = <<>> THEN PyNone ELSE PyStr(name)

\* Python truthiness of an Optional[str]
Truthy(v) == IsStr(v) /\ v.s # <<>>

\* a lookup that never finds the id in the cache
CachedNever(force_refresh, owner_name_cache, steam_id) == PyNone

\* line 153: cached = None if force_refresh else owner_name_cache.get(steam_id)
Cached(force_refresh, owner_name_cache, steam_id) ==
    IF force_refresh THEN PyNone ELSE DictGet(owner_name_cache, steam_id, PyNone)

\* a loop body that answers a failed fetch with the name the cache holds
LoopBodyFallingBack(steam_id, force_refresh, resp, st) ==
    LET cached == Cached(force_refresh, st.cache, steam_id)
        name == FetchOwnerNameFromProfileXml(resp)
    IN  IF Truthy(cached)
        THEN [st EXCEPT !.result = DictSet(@, steam_id, cached)]
        ELSE IF Truthy(name)
        THEN [st EXCEPT !.cache = DictSet(@, steam_id, name),
                        !.result = DictSet(@, steam_id, name),
                        !.updated = TRUE,
                        !.fetched = Append(@, steam_id),
                        !.resps = Append(@, resp)]
        ELSE [st EXCEPT !.result = IF DictHas(st.cache, steam_id)
                                   THEN DictSet(@, steam_id,
                                                DictGet(st.cache, steam_id, PyNone))
                                   ELSE @,
                        !.fetched = Append(@, steam_id),
                        !.resps = Append(@, resp)]

\* lines 153-162, one iteration of the loop of resolve_owner_names; resp is
\* what the network answers if the id is fetched.  st = [cache, result,
\* updated, fetched, resps]: owner_name_cache, result, cache_updated, and the
\* ids fetched so far with the answers they got.
LoopBody(steam_id, force_refresh, resp, st) ==
    LET cached == Cached(force_refresh, st.cache, steam_id)
        name == FetchOwnerNameFromProfileXml(resp)
    IN  IF Truthy(cached)
        THEN [st EXCEPT !.result = DictSet(@, steam_id, cached)]
        ELSE IF Truthy(name)
        THEN [st EXCEPT !.cache = DictSet(@, steam_id, name),
                        !.result = DictSet(@, steam_id, name),
                        !.updated = TRUE,
                        !.fetched = Append(@, steam_id),
                        !.resps = Append(@, resp)]
        ELSE [st EXCEPT !.fetched = Append(@, steam_id),
                        !.resps = Append(@, resp)]

\* the for loop of resolve_owner_names from position i; net[id] is what the
\* network answers for id
RECURSIVE ResolveLoop(_, _, _, _, _)
ResolveLoop(ids, i, force_refresh, net, st) ==
    IF i > Len(ids) THEN st
    ELSE ResolveLoop(ids, i + 1, force_refresh, net,
                     LoopBody(ids[i], force_refresh, net[ids[i]], st))

\* the state of the loop of resolve_owner_names before its first iteration
LoopStart(owner_name_cache) ==
    [cache |-> owner_name_cache, result |-> <<>>, updated |-> FALSE,
     fetched |-> <<>>, resps |-> <<>>]

\* line 165: data with data[OWNER_NAME_CACHE_KEY] = json.dumps(owner_name_cache)
WithCache(data, owner_name_cache) ==
    PyDict(DictSet(data.items, OWNER_NAME_CACHE_KEY,
                   PyStr(JsonDumps(PyDict(owner_name_cache)))))

KEY == <<"k", "e", "y">>
VALUE == <<"v", "a", "l", "u", "e">>
STEAM_IDS == <<"s", "t", "e", "a", "m", "_", "i", "d", "s">>
STEAM_IDS_CSV == <<"s", "t", "e", "a", "m", "_", "i", "d", "s", "_", "c", "s", "v">>
FORCE_REFRESH == <<"f", "o", "r", "c", "e", "_", "r", "e", "f", "r", "e", "s", "h">>

\* bool(x) for the values force_refresh takes
Bool(v) == v = PyBool(TRUE)

(***************************************************************************)
(* The inputs of the calls.                                                *)
(***************************************************************************)
\* the longest comma-separated id list enumerated, in pieces
MaxIds == 2

KeyK == <<"k">>
KeyJ == <<"j">>
Keys == {KeyK, OWNER_NAME_CACHE_KEY}

\* a cache mapping some of whose entries normalization drops
BadCache ==
    PyDict(<< << <<" ", "1">>, PyStr(<<"A", "l", " ">>) >>,
              << <<"2">>, PyStr(<<" ">>) >>,
              << <<" ">>, PyStr(<<"B", "o">>) >>,
              << <<"3">>, PyInt(<<"5">>) >> >>)

Values == {PyNone, PyStr(<<"x">>), BadCache, PyStr(<<Surrogate>>), PyObject}

KeyArgs == {PyNone} \cup {PyStr(k) : k \in Keys}

\* storage_get(key=..) or storage_get(payload)
GetArgs ==
    {[payload |-> PyNone, key |-> k] : k \in KeyArgs}
    \cup {[payload |-> PyDict(<< <<KEY, PyStr(KeyK)>> >>), key |-> PyNone],
          [payload |-> EmptyDict, key |-> PyNone]}

\* storage_set(key=.., value=..) or storage_set(payload)
SetArgs ==
    {[payload |-> PyNone, key |-> k, value |-> v] : k \in KeyArgs, v \in Values}
    \cup {[payload |-> PyDict(<< <<KEY, PyStr(KeyK)>>, <<VALUE, PyStr(<<"x">>)>> >>),
           key |-> PyNone, value |-> PyNone],
          [payload |-> PyDict(<< <<KEY, PyStr(KeyK)>> >>),
           key |-> PyNone, value |-> PyNone]}

\* the pieces of a comma-separated id list
IdTokens == {<<"1">>, <<" ", "2">>}

TokenSeqs == UNION {[1..n -> IdTokens] : n \in 0..MaxIds}

RECURSIVE Join(_, _)
Join(pieces, sep) ==
    IF pieces = <<>> THEN <<>>
    ELSE IF Len(pieces) = 1 THEN pieces[1]
    ELSE pieces[1] \o <<sep>> \o Join(Tail(pieces), sep)

\* resolve_owner_names(steam_ids_csv=.., force_refresh=..), (steam_ids=..),
\* (payload) or ()
ResolveArgs ==
    {[payload |-> PyNone, steam_ids |-> PyNone,
      csv |-> PyStr(Join(q, ",")), force |-> fr] : q \in TokenSeqs, fr \in BOOLEAN}
    \cup {[payload |-> PyNone, steam_ids |-> PyNone, csv |-> PyStr(text), force |-> fr] :
             text \in {<<"1", ",", "1", ",", "2">>, <<",", "2", " ", ",", " ", ",", "1">>,
                       <<" ", ",">>},
             fr \in BOOLEAN}
    \cup {[payload |-> PyNone,
           steam_ids |-> PyList(<<PyStr(<<"2">>), PyInt(<<"1">>), PyStr(<<"2", " ">>)>>),
           csv |-> PyStr(<<"1">>), force |-> FALSE],
          [payload |-> PyDict(<< <<STEAM_IDS_CSV, PyStr(<<"2", ",", "1">>)>>,
                                <<FORCE_REFRESH, PyBool(TRUE)>> >>),
           steam_ids |-> PyNone, csv |-> PyNone, force |-> FALSE],
          [payload |-> PyNone, steam_ids |-> PyNone, csv |-> PyNone, force |-> FALSE]}

\* lines 140-144 of resolve_owner_names: the payload's fields win, then
\* _parse_steam_ids
Request(a) ==
    [ids |-> ParseSteamIds(FromPayload(a.payload, STEAM_IDS, a.steam_ids),
                           FromPayload(a.payload, STEAM_IDS_CSV, a.csv)),
     force |-> Bool(FromPayload(a.payload, FORCE_REFRESH, PyBool(a.force)))]

RequestOf == [a \in ResolveArgs |-> Request(a)]
Requests == {RequestOf[a] : a \in ResolveArgs}
ArgsOf(req) == {a \in ResolveArgs : RequestOf[a] = req}

Responses ==
    {FetchError, NoSteamID, Profile(<<" ">>), Profile(<<" ", "A", "l">>),
     Profile(<<"B", "o">>)}

IoOk == [k |-> "ok", cut |-> 0]

IoOutcomes ==
    {IoOk, [k |-> "openfail", cut |-> 0], [k |-> "ioerror", cut |-> 1]}

InitFiles ==
    {AbsentFile, UnreadableFile, TextFile(<<"[", "]">>),
     TextFile(JsonDumps(PyDict(<< <<KeyK, PyInt(<<"7">>)>>,
        <<OWNER_NAME_CACHE_KEY,
          PyDict(<< << <<"2", " ">>, PyStr(<<" ", "B", "o">>) >> >>)>> >>)))}

(***************************************************************************)
(* State.  file: DATA_FILE.  call: the call the host has dispatched and    *)
(* what it observed of it (op = "none": no call in progress), with the     *)
(* file as it was when the call began.  lastSet: per key, the string of    *)
(* the latest storage_set that returned True.  prevResolved: the ids the   *)
(* call before this one resolved, when it was a resolve_owner_names whose  *)
(* write did not fail.  proc: the calls in progress when the host does not *)
(* serialize them.                                                         *)
(***************************************************************************)
VARIABLES file, call, lastSet, prevResolved, proc

vars == <<file, call, lastSet, prevResolved, proc>>

NoCall ==
    [op |-> "none", key |-> PyNone, value |-> PyNone, steam_ids |-> PyNone,
     csv |-> PyNone, ids |-> <<>>, force |-> FALSE, raised |-> FALSE,
     ret |-> PyNone, wrote |-> "none", fetched |-> <<>>, resps |-> <<>>,
     loaded |-> <<>>, cache |-> <<>>, before |-> AbsentFile]

Procs == {1, 2}

NoUpdate == [key |-> <<>>, value |-> PyNone]

IdleProc ==
    [pc |-> "idle", op |-> "none", data |-> EmptyDict, cache |-> <<>>,
     ids |-> <<>>, force |-> FALSE, upd |-> NoUpdate, result |-> PyNone,
     ret |-> PyNone, raised |-> FALSE, missed |-> {}, current |-> FALSE,
     calls |-> 0]

Init ==
    /\ file \in InitFiles
    /\ call = NoCall
    /\ lastSet = [k \in Keys \ {OWNER_NAME_CACHE_KEY} |-> PyNone]
    /\ prevResolved = {}
    /\ proc = [p \in Procs |-> IdleProc]

\* storage_get
StorageGet ==
    /\ call.op = "none"
    /\ \E data \in {LoadAll(file)}, a \in GetArgs :
       \E key \in {FromPayload(a.payload, KEY, a.key)} :
         call' = IF key = PyNone THEN [NoCall EXCEPT !.op = "get", !.before = file]
                 ELSE IF ~IsDict(data)
                 THEN [NoCall EXCEPT !.op = "get", !.key = key, !.raised = TRUE,
                         !.before = file]
                 ELSE [NoCall EXCEPT !.op = "get", !.key = key,
                         !.ret = DictGet(data.items, key.s, PyNone),
                         !.before = file]
    /\ UNCHANGED <<file, lastSet, prevResolved, proc>>

\* storage_set
StorageSet ==
    /\ call.op = "none"
    /\ \E data \in {LoadAll(file)}, a \in SetArgs :
       \E key \in {FromPayload(a.payload, KEY, a.key)},
          value \in {FromPayload(a.payload, VALUE, a.value)} :
         IF Rejected(key, value)
         THEN /\ call' = [NoCall EXCEPT !.op = "set", !.key = key,
                            !.value = value, !.ret = PyBool(FALSE),
                            !.before = file]
              /\ UNCHANGED <<file, lastSet>>
         ELSE IF ~IsDict(data)
         THEN /\ call' = [NoCall EXCEPT !.op = "set", !.key = key,
                            !.value = value, !.raised = TRUE, !.before = file]
              /\ UNCHANGED <<file, lastSet>>
         ELSE \E stored \in {StoredValue(value)}, io \in IoOutcomes :
              \E w \in {WriteAll(file, PyDict(DictSet(data.items, key.s, stored)),
                                 io)} :
                /\ file' = w.file
                /\ call' = [NoCall EXCEPT !.op = "set", !.key = key,
                              !.value = value, !.ret = PyBool(w.ok),
                              !.wrote = IF w.ok THEN "ok" ELSE "failed",
                              !.before = file]
                /\ lastSet' = IF w.ok /\ key.s \in DOMAIN lastSet
                              THEN [lastSet EXCEPT ![key.s] = stored]
                              ELSE lastSet
    /\ UNCHANGED <<prevResolved, proc>>

\* what the host sees of a resolve_owner_names call with arguments a
Resolved(a, req, raised, ret, wrote, st, loaded) ==
    [NoCall EXCEPT !.op = "resolve",
       !.steam_ids = FromPayload(a.payload, STEAM_IDS, a.steam_ids),
       !.csv = FromPayload(a.payload, STEAM_IDS_CSV, a.csv),
       !.force = req.force, !.ids = req.ids, !.raised = raised, !.ret = ret,
       !.wrote = wrote, !.fetched = st.fetched, !.resps = st.resps,
       !.loaded = loaded, !.cache = st.cache, !.before = file]

\* resolve_owner_names; net[id] is what the network answers for id.  The
\* calls are taken by what lines 140-144 make of their arguments (req), so
\* that calls that differ only in the spelling of the id list share the rest.
ResolveOwnerNames ==
    /\ call.op = "none"
    /\ \E data \in {LoadAll(file)}, req \in Requests :
         IF Len(req.ids) = 0
         THEN /\ \E a \in ArgsOf(req) :
                   call' = Resolved(a, req, FALSE, PyStr(<<"{", "}">>), "none",
                                    LoopStart(<<>>), <<>>)
              /\ UNCHANGED file
         ELSE IF ~IsDict(data)
         THEN /\ \E a \in ArgsOf(req) :
                   call' = Resolved(a, req, TRUE, PyNone, "none", LoopStart(<<>>), <<>>)
              /\ UNCHANGED file
         ELSE \E owner_name_cache \in
                  {NormalizeOwnerNameCache(DictGet(data.items, OWNER_NAME_CACHE_KEY,
                                                   PyNone))} :
              \E net \in [{req.ids[i] : i \in 1..Len(req.ids)} -> Responses] :
              \E st \in {ResolveLoop(req.ids, 1, req.force, net,
                                     LoopStart(owner_name_cache))} :
              \E ret \in {PyStr(JsonDumps(PyDict(st.result)))} :
                IF st.updated
                THEN \E io \in IoOutcomes :
                     \E w \in {WriteAll(file, WithCache(data, st.cache), io)} :
                       /\ file' = w.file
                       /\ \E a \in ArgsOf(req) :
                            call' = Resolved(a, req, FALSE, ret,
                                             IF w.ok THEN "ok" ELSE "failed",
                                             st, owner_name_cache)
                ELSE /\ \E a \in ArgsOf(req) :
                          call' = Resolved(a, req, FALSE, ret, "none", st,
                                           owner_name_cache)
                     /\ UNCHANGED file
    /\ UNCHANGED <<lastSet, prevResolved, proc>>

\* Plugin._load: _ensure_dir() at line 185 is outside any try, so a makedirs
\* that fails raises out of _load; otherwise the file is created as {} when
\* it does not exist
PluginLoad ==
    /\ call.op = "none"
    /\ \/ /\ call' = [NoCall EXCEPT !.op = "load", !.raised = TRUE, !.before = file]
          /\ UNCHANGED file
       \/ /\ IF file.kind = "absent"
             THEN \E io \in IoOutcomes : file' = WriteAll(file, EmptyDict, io).file
             ELSE UNCHANGED file
          /\ call' = [NoCall EXCEPT !.op = "load", !.before = file]
    /\ UNCHANGED <<lastSet, prevResolved, proc>>

\* the mapping a caller reads from the text resolve_owner_names returned
ResultOf(c) ==
    IF c.op = "resolve" /\ IsStr(c.ret) THEN JsonLoads(c.ret.s).v.items ELSE <<>>

\* the host takes the result of the call
Return ==
    /\ call.op # "none"
    /\ call' = NoCall
    /\ prevResolved' = IF call.op = "resolve" /\ call.wrote # "failed"
                       THEN DictKeys(ResultOf(call))
                       ELSE {}
    /\ UNCHANGED <<file, lastSet, proc>>

Next == StorageGet \/ StorageSet \/ ResolveOwnerNames \/ PluginLoad \/ Return

Spec == Init /\ [][Next]_vars

(***************************************************************************)
(* Calls that the host does not serialize.  A call reads and writes the    *)
(* file at _load_all and _write_all, and nothing orders these between two  *)
(* calls: each process takes the steps load, (fetch,) write of one call.   *)
(* proc[p].missed: the updates others wrote between p's load and p's       *)
(* write.  proc[p].current: the file is what p's write left.               *)
(***************************************************************************)
ConcSets ==
    {[key |-> KeyK, value |-> PyStr(<<"x">>)], [key |-> KeyJ, value |-> PyStr(<<"y">>)]}

ConcRequests == {req \in Requests : req.ids = <<<<"1">>>> /\ ~req.force}

ConcResponses == {FetchError, Profile(<<" ", "A", "l">>), Profile(<<"B", "o">>)}

\* the calls one process makes
MaxCalls == 2

ConcInitFiles == {AbsentFile, TextFile(Concat(DumpChunks(EmptyDict)))}

InitConc ==
    /\ file \in ConcInitFiles
    /\ call = NoCall
    /\ lastSet = [k \in Keys \ {OWNER_NAME_CACHE_KEY} |-> PyNone]
    /\ prevResolved = {}
    /\ proc = [p \in Procs |-> IdleProc]

\* storage_set, lines 72-73: data = _load_all(); data[key] = value
SetLoad(p) ==
    /\ proc[p].pc = "idle"
    /\ proc[p].calls < MaxCalls
    /\ \E data \in {LoadAll(file)}, a \in ConcSets :
         proc' = [proc EXCEPT ![p] =
                    IF ~IsDict(data)
                    THEN [IdleProc EXCEPT !.pc = "done", !.op = "set",
                                          !.raised = TRUE,
                                          !.calls = proc[p].calls + 1]
                    ELSE [IdleProc EXCEPT !.pc = "write", !.op = "set",
                            !.data = PyDict(DictSet(data.items, a.key, a.value)),
                            !.upd = a, !.calls = proc[p].calls + 1]]
    /\ UNCHANGED <<file, call, lastSet, prevResolved>>

\* resolve_owner_names, lines 148-149: the load and the normalized cache
ResolveLoad(p) ==
    /\ proc[p].pc = "idle"
    /\ proc[p].calls < MaxCalls
    /\ \E data \in {LoadAll(file)}, req \in ConcRequests :
         proc' = [proc EXCEPT ![p] =
                    IF ~IsDict(data)
                    THEN [IdleProc EXCEPT !.pc = "done", !.op = "resolve",
                                          !.raised = TRUE,
                                          !.calls = proc[p].calls + 1]
                    ELSE [IdleProc EXCEPT !.pc = "fetch", !.op = "resolve",
                            !.data = data, !.ids = req.ids, !.force = req.force,
                            !.calls = proc[p].calls + 1,
                            !.cache = NormalizeOwnerNameCache(
                                        DictGet(data.items, OWNER_NAME_CACHE_KEY,
                                                PyNone))]]
    /\ UNCHANGED <<file, call, lastSet, prevResolved>>

\* resolve_owner_names, lines 150-165: the loop, and the document to write
\* when a name was fetched; otherwise the call returns at line 168
ResolveFetch(p) ==
    /\ proc[p].pc = "fetch"
    /\ \E net \in [{proc[p].ids[i] : i \in 1..Len(proc[p].ids)} -> ConcResponses] :
       \E st \in {ResolveLoop(proc[p].ids, 1, proc[p].force, net,
                              LoopStart(proc[p].cache))} :
       \E result \in {PyStr(JsonDumps(PyDict(st.result)))} :
         proc' = [proc EXCEPT ![p] =
                    IF st.updated
                    THEN [@ EXCEPT !.pc = "write", !.result = result,
                            !.data = WithCache(proc[p].data, st.cache),
                            !.upd = [key |-> OWNER_NAME_CACHE_KEY,
                                     value |-> PyStr(JsonDumps(PyDict(st.cache)))]]
                    ELSE [@ EXCEPT !.pc = "done", !.result = result,
                                   !.ret = result]]
    /\ UNCHANGED <<file, call, lastSet, prevResolved>>

\* _write_all(data) at line 74 or line 166, and the return that follows it:
\* storage_set returns what _write_all returned, resolve_owner_names its result
Write(p) ==
    /\ proc[p].pc = "write"
    /\ \E io \in IoOutcomes :
       \E w \in {WriteAll(file, proc[p].data, io)} :
         /\ file' = w.file
         /\ proc' = [q \in Procs |->
                       IF q = p
                       THEN [proc[p] EXCEPT !.pc = "done", !.current = w.ok,
                               !.ret = IF proc[p].op = "set" THEN PyBool(w.ok)
                                       ELSE proc[p].result]
                       ELSE [proc[q] EXCEPT
                               !.missed = IF w.ok /\ proc[q].pc \in {"fetch", "write"}
                                          THEN @ \cup {proc[p].upd}
                                          ELSE @,
                               !.current = IF io.k = "openfail" THEN @ ELSE FALSE]]
    /\ UNCHANGED <<call, lastSet, prevResolved>>

\* the host takes the result of p's call
Finish(p) ==
    /\ proc[p].pc = "done"
    /\ proc' = [proc EXCEPT ![p] = [IdleProc EXCEPT !.calls = proc[p].calls]]
    /\ UNCHANGED <<file, call, lastSet, prevResolved>>

NextConc ==
    \E p \in Procs :
        SetLoad(p) \/ ResolveLoad(p) \/ ResolveFetch(p) \/ Write(p) \/ Finish(p)

SpecConc == InitConc /\ [][NextConc]_vars

(***************************************************************************)
(* The properties.                                                         *)
(***************************************************************************)
Range(s) == {s[i] : i \in 1..Len(s)}

NoDuplicates(s) == \A i, j \in 1..Len(s) : s[i] = s[j] => i = j

\* the answer carries a name that is not empty once trimmed
NamedBy(resp) ==
    resp.k = "xml" /\ IsStr(resp.steamID) /\ Strip(resp.steamID.s) # <<>>

FreshName(resp) == PyStr(Strip(resp.steamID.s))

\* the value f holds under OWNER_NAME_CACHE_KEY, as a mapping, unnormalized
RawCache(f) ==
    LET d == LoadAll(f)
        raw == IF IsDict(d) THEN DictGet(d.items, OWNER_NAME_CACHE_KEY, PyNone)
               ELSE PyNone
        parsed == IF IsStr(raw) THEN JsonLoads(raw.s) ELSE ParseOk(raw, 0)
    IN  IF parsed.ok /\ IsDict(parsed.v) THEN parsed.v.items ELSE <<>>

\* the owner-name cache a call would consult in f
CacheOf(f) ==
    LET d == LoadAll(f)
    IN  IF IsDict(d)
        THEN NormalizeOwnerNameCache(DictGet(d.items, OWNER_NAME_CACHE_KEY, PyNone))
        ELSE <<>>

\* ids and names are strings, trimmed and not empty
Clean(items) ==
    \A i \in 1..Len(items) :
        /\ items[i][1] # <<>>
        /\ Strip(items[i][1]) = items[i][1]
        /\ IsStr(items[i][2])
        /\ items[i][2].s # <<>>
        /\ Strip(items[i][2].s) = items[i][2].s

\* C1: storage_get(k), k not the reserved key, returns the string of the
\* most recent storage_set(k, .) that returned True, whatever calls came in
\* between.
C1_GetReturnsLastSuccessfulSet ==
    (/\ call.op = "get"
     /\ IsStr(call.key)
     /\ call.key.s \in DOMAIN lastSet
     /\ lastSet[call.key.s] # PyNone)
        => call.ret = lastSet[call.key.s]

\* C2: storage_set with a None key or a None value returns False, writes
\* nothing and leaves the file as it was.
C2_NullSetIsNoOp ==
    (call.op = "set" /\ (call.key = PyNone \/ call.value = PyNone))
        => /\ ~call.raised
           /\ call.ret = PyBool(FALSE)
           /\ call.wrote = "none"
           /\ file = call.before

C2_Witness ==
    /\ call.op = "set"
    /\ call.key = PyStr(KeyK)
    /\ call.value = PyNone
    /\ IsDict(LoadAll(file))
    /\ DictGet(LoadAll(file).items, KeyK, PyNone) = PyStr(<<"x">>)

\* C3: no call of storage_get, storage_set or resolve_owner_names raises to
\* its caller, whatever the file holds.
C3_NoCallRaises == call.op \in {"get", "set", "resolve"} => ~call.raised

\* C4: without force_refresh an id the normalized cache holds is not
\* fetched and gets the cached name; a call whose ids the call before it
\* all resolved (its write not having failed) fetches nothing.
C4_CacheHitIssuesNoFetch ==
    (call.op = "resolve" /\ ~call.force) =>
        /\ \A result \in {ResultOf(call)}, i \in 1..Len(call.ids) :
             DictHas(call.loaded, call.ids[i]) =>
                /\ call.ids[i] \notin Range(call.fetched)
                /\ DictGet(result, call.ids[i], PyNone)
                     = DictGet(call.loaded, call.ids[i], PyNone)
        /\ (call.ids # <<>> /\ Range(call.ids) \subseteq prevResolved)
             => call.fetched = <<>>

C4_Witness ==
    /\ call.op = "resolve"
    /\ ~call.force
    /\ Len(call.ids) = 2
    /\ Range(call.ids) \subseteq prevResolved
    /\ call.fetched = <<>>
    /\ Len(ResultOf(call)) = 2

\* C5: with force_refresh every unique id is fetched exactly once, cached
\* or not, and the name returned and cached for an id is the fetched one.
C5_ForceRefreshFetchesEveryId ==
    (call.op = "resolve" /\ call.force) =>
        /\ call.fetched = call.ids
        /\ \A result \in {ResultOf(call)}, i \in 1..Len(call.fetched) :
             NamedBy(call.resps[i]) =>
                /\ DictGet(result, call.fetched[i], PyNone)
                     = FreshName(call.resps[i])
                /\ DictGet(call.cache, call.fetched[i], PyNone)
                     = FreshName(call.resps[i])

\* the same for the calls that do not raise
Aux_C5_WhenNoRaise == call.raised \/ C5_ForceRefreshFetchesEveryId

\* the first piece of toks that trims to sid
FirstSeen(toks, sid) ==
    CHOOSE i \in 1..Len(toks) :
        Strip(toks[i]) = sid /\ \A j \in 1..(i - 1) : Strip(toks[j]) # sid

\* C6: the ids processed are the distinct non-empty trimmed input ids in
\* first-seen order; each is fetched at most once, in that order; the keys of
\* the result are among them.
C6_EachUniqueIdOnce ==
    call.op = "resolve" =>
        \A toks \in {ParsedIds(call.steam_ids, call.csv)}, result \in {ResultOf(call)} :
        \A trimmed \in {{Strip(toks[i]) : i \in 1..Len(toks)} \ {<<>>}} :
            /\ NoDuplicates(call.ids)
            /\ Range(call.ids) = trimmed
            /\ \A i, j \in 1..Len(call.ids) :
                 i < j => FirstSeen(toks, call.ids[i]) < FirstSeen(toks, call.ids[j])
            /\ NoDuplicates(call.fetched)
            /\ call.fetched = SelectSeq(call.ids, LAMBDA sid : sid \in Range(call.fetched))
            /\ DictKeys(result) \subseteq trimmed
            /\ NoDuplicates([i \in 1..Len(result) |-> result[i][1]])

C6_Witness ==
    /\ call.op = "resolve"
    /\ call.csv = PyStr(<<"1", ",", "1", ",", "2">>)
    /\ call.fetched = << <<"1">>, <<"2">> >>
    /\ DictKeys(ResultOf(call)) = {<<"1">>, <<"2">>}

\* C7: an id is in the returned mapping iff it was a cache hit of a
\* non-forced call or its fetch gave a non-empty trimmed name; a failed fetch
\* leaves the id out of the result and its cache entry, if any, as it was.
C7_ResultIffHitOrFetched ==
    call.op = "resolve" =>
        \A result \in {ResultOf(call)}, i \in 1..Len(call.ids) :
            LET id == call.ids[i]
                hit == ~call.force /\ DictHas(call.loaded, id)
                got == \E j \in 1..Len(call.fetched) :
                          call.fetched[j] = id /\ NamedBy(call.resps[j])
                failed == \E j \in 1..Len(call.fetched) :
                             call.fetched[j] = id /\ ~NamedBy(call.resps[j])
            IN  /\ DictHas(result, id) <=> (hit \/ got)
                /\ failed =>
                     /\ ~DictHas(result, id)
                     /\ DictGet(call.cache, id, PyNone)
                          = DictGet(call.loaded, id, PyNone)
                     /\ call.wrote = "ok" =>
                          DictGet(CacheOf(file), id, PyNone)
                            = DictGet(call.loaded, id, PyNone)

C7_Witness ==
    /\ call.op = "resolve"
    /\ call.force
    /\ call.wrote = "ok"
    /\ DictHas(call.loaded, <<"2">>)
    /\ \E j \in 1..Len(call.fetched) :
         call.fetched[j] = <<"2">> /\ ~NamedBy(call.resps[j])
    /\ DictKeys(ResultOf(call)) = {<<"1">>}
    /\ DictGet(CacheOf(file), <<"2">>, PyNone) = PyStr(<<"B", "o">>)

\* C8: every entry of the owner-name cache, as a call would consult it in any
\* state the store is left in, as resolve_owner_names consulted it and as it
\* persists it, has an id and a name that are trimmed and not empty.
C8_CacheEntriesTrimmedNonEmpty ==
    /\ call.op = "none" => Clean(CacheOf(file))
    /\ call.op = "resolve" =>
         /\ Clean(call.loaded)
         /\ Clean(call.cache)
         /\ call.wrote = "ok" =>
              \A persisted \in {RawCache(file)} :
                  persisted = call.cache /\ Clean(persisted)

C8_Witness ==
    /\ call.op = "resolve"
    /\ call.wrote = "ok"
    /\ ~Clean(RawCache(call.before))
    /\ Len(call.loaded) > 0
    /\ Len(call.loaded) < Len(RawCache(call.before))

\* C9: nothing orders the load and the write of two calls: the file is the
\* copy of the call that wrote last, which reports success whatever updates
\* others wrote after it had loaded.
C9_LastWriterWins ==
    \A p \in Procs :
        (proc[p].pc = "done" /\ proc[p].current) =>
            /\ LoadAll(file) = proc[p].data
            /\ proc[p].ret = IF proc[p].op = "set" THEN PyBool(TRUE)
                             ELSE proc[p].result

\* two calls have reported success and the update of one is not in the file
C9_Witness ==
    \E p, q \in Procs :
        /\ p # q
        /\ proc[p].pc = "done" /\ proc[p].current
        /\ proc[q].pc = "done"
        /\ proc[q].ret \in {PyBool(TRUE), proc[q].result}
        /\ proc[q].upd \in proc[p].missed
        /\ proc[q].upd.key # proc[p].upd.key
        /\ DictGet(LoadAll(file).items, proc[q].upd.key, PyNone) # proc[q].upd.value

\* C10: resolve_owner_names rewrites the store iff a name was newly
\* fetched, and otherwise leaves the file as it was; a rewrite keeps every
\* other key's value and every entry the cache held.
C10_ResolveFrame ==
    call.op = "resolve" =>
        LET named == \E i \in 1..Len(call.resps) : NamedBy(call.resps[i])
            old == LoadAll(call.before)
            new == LoadAll(file)
        IN  /\ (call.wrote # "none") <=> named
            /\ ~named => file = call.before
            /\ call.wrote # "none" =>
                 /\ \A k \in DictKeys(old.items) \ {OWNER_NAME_CACHE_KEY} :
                      DictGet(new.items, k, PyNone) = DictGet(old.items, k, PyNone)
                 /\ \A i \in 1..Len(call.loaded) :
                      DictHas(CacheOf(file), call.loaded[i][1])

\* the same for the calls whose write did not fail
Aux_C10_WhenWriteOk ==
    (call.op = "resolve" /\ call.wrote = "ok") =>
        LET old == LoadAll(call.before)
            new == LoadAll(file)
        IN  /\ \A k \in DictKeys(old.items) \ {OWNER_NAME_CACHE_KEY} :
                 DictGet(new.items, k, PyNone) = DictGet(old.items, k, PyNone)
            /\ \A i \in 1..Len(call.loaded) :
                 DictHas(CacheOf(file), call.loaded[i][1])

====
